---- MODULE Spec2Model ----
(***************************************************************************)
(* Cronyx report engine (pkg/cronyx): adapter registries, job queue,       *)
(* worker pool, cron-triggered enqueue and the four-stage pipeline of      *)
(* Engine.execute.                                                         *)
(*                                                                         *)
(* Specifications:                                                         *)
(*   SpecExec  registries + TestExecute driving Engine.execute over jobs   *)
(*             of different shapes (the pipeline in isolation);            *)
(*   Spec      the engine: Start/Stop, AddCronJob, firings, Enqueue and    *)
(*             the workers running Engine.execute on dequeued jobs;        *)
(*   SpecFull  the engine with an empty registry and one kind of job,      *)
(*             submitted until the queue is at its capacity.               *)
(***************************************************************************)
EXTENDS Integers, Sequences, FiniteSets, TLC

(***************************************************************************)
(* Bounds of the model                                                     *)
(***************************************************************************)
\* workers argument of NewEngine(workers) used by Spec and SpecFull
NumWorkers == 2
\* queue lengths explored in Spec (SpecFull explores them up to QueueCap)
MaxQueued == 2
\* goroutines that may be parked in a send on jobQueue at the same time
MaxBlocked == 2
\* number of AddCronJob calls explored
MaxCronEntries == 1

(***************************************************************************)
(* Program constants                                                       *)
(***************************************************************************)
\* make(chan ReportJob, 100)
QueueCap == 100

(***************************************************************************)
(* Names and values                                                        *)
(***************************************************************************)
LoaderNames == {"csv", "sql"}
RendererNames == {"markdown", "html"}
OutputNames == {"html", "pdf"}
DeliveryNames == {"console", "email"}
\* adapter implementations supplied by the host
AdapterIds == {"A", "B"}
\* what an adapter call may return: nil, an error of its own, or the
\* context's deadline error
AdapterOutcomes == {"ok", "err", "deadline"}

Tester == 0
Workers == 1..NumWorkers
Executors == {Tester} \cup Workers

\* Go map read m[k]: the zero value "" when k is absent
MapGet(m, k) == IF k \in DOMAIN m THEN m[k] ELSE ""

\* variant: writing a key that is present deletes the entry
MapPutDropTaken(m, k, v) ==
    IF k \in DOMAIN m THEN [n \in (DOMAIN m) \ {k} |-> m[n]]
    ELSE [n \in (DOMAIN m) \cup {k} |-> IF n = k THEN v ELSE m[n]]

\* Go map write m[k] = v
MapPut(m, k, v) == [n \in (DOMAIN m) \cup {k} |-> IF n = k THEN v ELSE m[n]]

EmptyMap == [n \in {} |-> "A"]

\* no RegisterLoader call is inside its map assignment
NoWrite == [name |-> "", d |-> ""]

(***************************************************************************)
(* ReportJob values                                                        *)
(***************************************************************************)
\* Name and TemplatePath play no part in the engine; the jobs built here are
\* named after their ID and share one template
ReportJob(id, ds, outs, dels, sched, timeout) ==
    [ID |-> id, Name |-> id, TemplatePath |-> IF id = "" THEN "" ELSE "report.md",
     DataSource |-> ds, Outputs |-> outs, Delivery |-> dels,
     Schedule |-> sched, Timeout |-> timeout]

DS(t) == [k \in {"type"} |-> t]

NoJob == ReportJob("", EmptyMap, <<>>, <<>>, "", 0)

\* jobs handed to TestExecute in SpecExec
JobFull == ReportJob("full", DS("csv"), <<"html", "pdf">>,
                     <<DS("console"), DS("email")>>, "", 5)
JobDup == ReportJob("dup", DS("csv"), <<"html", "html">>, <<DS("console")>>, "", 5)
JobSql == ReportJob("sql", DS("sql"), <<"html">>, <<DS("console")>>, "", 5)
JobEmpty == ReportJob("empty", DS("csv"), <<>>, <<>>, "", 5)
ExecJobs == {JobFull, JobDup, JobSql, JobEmpty}
\* a job whose template is not a markdown file
JobHtml == [JobFull EXCEPT !.ID = "html", !.Name = "html", !.TemplatePath = "report.html"]

\* jobs submitted to the engine in Spec
JobCron == ReportJob("j1", DS("csv"), <<"html">>, <<DS("console")>>, "@every 1s", 5)
JobAdhoc == ReportJob("j2", DS("sql"), <<"html">>, <<DS("console")>>, "", 5)
EngineJobs == {JobCron, JobAdhoc}

\* jobs that break the invariants of a ReportJob, submitted in SpecValid
JobZeroTimeout == [JobCron EXCEPT !.ID = "j0", !.Timeout = 0]
JobBlank == [JobCron EXCEPT !.ID = "", !.Name = "", !.TemplatePath = "",
                            !.Outputs = <<>>, !.Delivery = <<>>]
ValidationJobs == {JobCron, JobZeroTimeout, JobBlank}

(***************************************************************************)
(* Errors returned by Engine.execute                                       *)
(***************************************************************************)
NilErr == [kind |-> "nil", arg |-> ""]
ErrNoLoaderFor(t) == [kind |-> "no loader for type", arg |-> t]
ErrNoOutputFor(f) == [kind |-> "no output generator for", arg |-> f]
ErrNoDeliveryFor(t) == [kind |-> "no delivery adapter for", arg |-> t]
\* the adapter's own error, returned unchanged
AdapterErr(outcome) == [kind |-> "adapter", arg |-> outcome]

(***************************************************************************)
(* State                                                                   *)
(***************************************************************************)
VARIABLES
    Loaders, Renderers, Outputs, Deliveries,  \* Engine registries (Go maps)
    loadersWrite,  \* the write to e.Loaders that is in progress, if any
    jobQueue,      \* buffer of the channel e.jobQueue
    sendq,         \* goroutines parked in `e.jobQueue <- job`, oldest first
    stopCh,        \* "open" or "closed"
    workers,       \* Engine.workers
    started,       \* Start() has been called
    cronEntries,   \* jobs registered with cronSched.AddFunc
    cronRunning,   \* cronSched is started and not stopped
    cronErr,       \* error returned by the last AddCronJob call
    stops,         \* number of Stop() calls that returned
    stopPc,        \* position of the Stop() caller
    crashed,       \* the process died of an unrecovered panic
    exec,          \* per executor: position in workerLoop/TestExecute/execute
    jb,            \* the JobBuilder in use: its fields job and err
    built          \* what Build() returned, once it has been called

regs == <<Loaders, Renderers, Outputs, Deliveries, loadersWrite>>
builder == <<jb, built>>
engine == <<jobQueue, sendq, stopCh, workers, started, cronEntries, cronRunning,
            cronErr, stops, stopPc, crashed>>
vars == <<Loaders, Renderers, Outputs, Deliveries, loadersWrite, jobQueue, sendq, stopCh,
          workers, started, cronEntries, cronRunning, cronErr, stops, stopPc,
          crashed, exec, jb, built>>

\* a record of one adapter call made by an execution
Call(op, by, idx, files) ==
    [op |-> op, by |-> by, idx |-> idx, files |-> files, ret |-> "pending"]

\* the OutputFile returned by generator `by` for format tag f as the n-th
\* Generate call of the execution
OutputFile(by, f, n) == [by |-> by, format |-> f, n |-> n]

\* scope: the context made by context.WithTimeout: "open", "canceled" (the
\* parent context was cancelled) or "deadline" (the timeout elapsed) until
\* its cancel function is called; "none" while the executor has no context
ExecState(pc) ==
    [pc |-> pc, job |-> NoJob, i |-> 0, files |-> <<>>, log |-> <<>>, err |-> NilErr,
     scope |-> "none"]

\* context.WithTimeout(parent, job.Timeout): a timeout that is not positive
\* has elapsed when the context is made
NewScope(job) == IF job.Timeout <= 0 THEN "deadline" ELSE "open"

\* mark the last call of the log as returned
Returned(log, outcome) ==
    [log EXCEPT ![Len(log)].ret = outcome]

(***************************************************************************)
(* Engine.execute, as state transformers on one executor's record s.       *)
(* An adapter call is a suspension point: the call is logged when it is    *)
(* made (pc names the adapter being run) and a later step returns from it. *)
(***************************************************************************)
Fail(s, e) == [s EXCEPT !.pc = "done", !.err = e]

\* variant: the adapters of all remaining deliveries are looked up before
\* the next delivery is made
EnterDeliverPrecheck(s, k) ==
    LET missing == {m \in k..Len(s.job.Delivery) :
                      MapGet(s.job.Delivery[m], "type") \notin DOMAIN Deliveries} IN
    IF k > Len(s.job.Delivery)
    THEN [s EXCEPT !.pc = "done", !.err = NilErr, !.i = k]
    ELSE IF missing # {}
         THEN LET m == CHOOSE m \in missing : \A n \in missing : m <= n IN
              Fail([s EXCEPT !.i = m],
                   ErrNoDeliveryFor(MapGet(s.job.Delivery[m], "type")))
         ELSE [s EXCEPT !.pc = "deliver", !.i = k,
                        !.log = Append(@, Call("Deliver",
                                   Deliveries[MapGet(s.job.Delivery[k], "type")],
                                   k, s.files))]

\* step 5 of execute: the delivery loop from position k on
EnterDeliver(s, k) ==
    IF k > Len(s.job.Delivery)
    THEN [s EXCEPT !.pc = "done", !.err = NilErr, !.i = k]
    ELSE LET dtype == MapGet(s.job.Delivery[k], "type") IN
         IF dtype \notin DOMAIN Deliveries
         THEN Fail([s EXCEPT !.i = k], ErrNoDeliveryFor(dtype))
         ELSE [s EXCEPT !.pc = "deliver", !.i = k,
                        !.log = Append(@, Call("Deliver", Deliveries[dtype], k, s.files))]

\* variant: a missing generator ends the output loop and what was generated
\* so far is delivered
EnterGenerateDeliverPartial(s, k) ==
    IF k > Len(s.job.Outputs)
    THEN EnterDeliver(s, 1)
    ELSE LET fmtName == s.job.Outputs[k] IN
         IF fmtName \notin DOMAIN Outputs
         THEN EnterDeliver([s EXCEPT !.i = k], 1)
         ELSE [s EXCEPT !.pc = "generate", !.i = k,
                        !.log = Append(@, Call("Generate", Outputs[fmtName], k, <<>>))]

\* step 4 of execute: the output loop from position k on
EnterGenerate(s, k) ==
    IF k > Len(s.job.Outputs)
    THEN EnterDeliver(s, 1)
    ELSE LET fmtName == s.job.Outputs[k] IN
         IF fmtName \notin DOMAIN Outputs
         THEN Fail([s EXCEPT !.i = k], ErrNoOutputFor(fmtName))
         ELSE [s EXCEPT !.pc = "generate", !.i = k,
                        !.log = Append(@, Call("Generate", Outputs[fmtName], k, <<>>))]

\* variant: the new file is put in front of the list
AppendFilePrepend(files, f) == <<f>> \o files

\* files = append(files, f)
AppendFile(files, f) == Append(files, f)

\* variant: the renderer is picked by the first output format of the job
EnterRenderByOutput(s) ==
    LET name == IF s.job.Outputs = <<>> THEN "markdown" ELSE s.job.Outputs[1] IN
    IF name \notin DOMAIN Renderers
    THEN [s EXCEPT !.pc = "panic"]
    ELSE [s EXCEPT !.pc = "render",
                   !.log = Append(@, Call("Render", Renderers[name], 0, <<>>))]

\* step 3 of execute: e.Renderers["markdown"] is read without the ok flag,
\* so a missing renderer is a nil interface and the call panics
EnterRender(s) ==
    IF "markdown" \notin DOMAIN Renderers
    THEN [s EXCEPT !.pc = "panic"]
    ELSE [s EXCEPT !.pc = "render",
                   !.log = Append(@, Call("Render", Renderers["markdown"], 0, <<>>))]

\* variant: a missing loader is skipped instead of failing the execution
EnterLoadSkipMissing(s) ==
    LET dsType == MapGet(s.job.DataSource, "type") IN
    IF dsType \notin DOMAIN Loaders
    THEN EnterRender(s)
    ELSE [s EXCEPT !.pc = "load",
                   !.log = Append(@, Call("Load", Loaders[dsType], 0, <<>>))]

\* steps 1 and 2 of execute, with m the contents the lookup finds in
\* e.Loaders: loader lookup and the Load call
LookupLoad(m, s) ==
    LET dsType == MapGet(s.job.DataSource, "type") IN
    IF dsType \notin DOMAIN m
    THEN Fail(s, ErrNoLoaderFor(dsType))
    ELSE [s EXCEPT !.pc = "load",
                   !.log = Append(@, Call("Load", m[dsType], 0, <<>>))]

EnterLoad(s) == LookupLoad(Loaders, s)

\* variant: the loaded data goes to the output loop unrendered
AfterLoadSkipRender(s, outcome) ==
    LET r == [s EXCEPT !.log = Returned(@, outcome)] IN
    IF outcome # "ok" THEN Fail(r, AdapterErr(outcome)) ELSE EnterGenerate(r, 1)

\* what execute does when the adapter it is waiting for returns `outcome`
AfterLoad(s, outcome) ==
    LET r == [s EXCEPT !.log = Returned(@, outcome)] IN
    IF outcome # "ok" THEN Fail(r, AdapterErr(outcome)) ELSE EnterRender(r)

\* variant: delivery is entered straight after rendering
AfterRenderDeliverFirst(s, outcome) ==
    LET r == [s EXCEPT !.log = Returned(@, outcome)] IN
    IF outcome # "ok" THEN Fail(r, AdapterErr(outcome)) ELSE EnterDeliver(r, 1)

AfterRender(s, outcome) ==
    LET r == [s EXCEPT !.log = Returned(@, outcome)] IN
    IF outcome # "ok" THEN Fail(r, AdapterErr(outcome)) ELSE EnterGenerate(r, 1)

AfterGenerate(s, outcome) ==
    LET r == [s EXCEPT !.log = Returned(@, outcome)] IN
    IF outcome # "ok" THEN Fail(r, AdapterErr(outcome))
    ELSE LET f == OutputFile(s.log[Len(s.log)].by, s.job.Outputs[s.i], Len(s.files) + 1) IN
         EnterGenerate([r EXCEPT !.files = AppendFile(@, f)], s.i + 1)

\* variant: best effort, a failed delivery does not stop the later ones
AfterDeliverBestEffort(s, outcome) ==
    LET r == [s EXCEPT !.log = Returned(@, outcome)] IN
    EnterDeliver(r, s.i + 1)

AfterDeliver(s, outcome) ==
    LET r == [s EXCEPT !.log = Returned(@, outcome)] IN
    IF outcome # "ok" THEN Fail(r, AdapterErr(outcome)) ELSE EnterDeliver(r, s.i + 1)

\* a panic in a worker goroutine is never recovered and kills the process
PanicEffect(x, s) == crashed \/ (s.pc = "panic" /\ x \in Workers)

(***************************************************************************)
(* Pipeline actions of executor x                                          *)
(***************************************************************************)
\* the lookup in e.Loaders while no write to the map is in progress
ExecuteBegin(x) ==
    /\ ~crashed
    /\ exec[x].pc = "execute"
    /\ loadersWrite = NoWrite
    /\ exec' = [exec EXCEPT ![x] = EnterLoad(exec[x])]
    /\ UNCHANGED <<builder, regs, engine>>

\* the lookup in e.Loaders while another goroutine is inside the map
\* assignment of RegisterLoader.  The map is not guarded by a lock, so this
\* is a data race: the read finds the map as it was, finds it as it will
\* be, or the runtime ends the process with "fatal error: concurrent map
\* read and map write".
ExecuteBeginRacing(x) ==
    /\ ~crashed
    /\ exec[x].pc = "execute"
    /\ loadersWrite # NoWrite
    /\ \/ /\ exec' = [exec EXCEPT ![x] = LookupLoad(Loaders, exec[x])]
          /\ crashed' = crashed
       \/ /\ exec' = [exec EXCEPT ![x] =
                        LookupLoad(MapPut(Loaders, loadersWrite.name, loadersWrite.d),
                                   exec[x])]
          /\ crashed' = crashed
       \/ /\ exec' = [exec EXCEPT ![x].pc = "fatal"]
          /\ crashed' = TRUE
    /\ UNCHANGED <<builder, regs, jobQueue, sendq, stopCh, workers, started, cronEntries,
                   cronRunning, cronErr, stops, stopPc>>

LoadReturn(x) ==
    /\ ~crashed
    /\ exec[x].pc = "load"
    /\ \E outcome \in AdapterOutcomes :
         LET s == AfterLoad(exec[x], outcome) IN
         /\ exec' = [exec EXCEPT ![x] = s]
         /\ crashed' = PanicEffect(x, s)
    /\ UNCHANGED <<builder, regs, jobQueue, sendq, stopCh, workers, started, cronEntries,
                   cronRunning, cronErr, stops, stopPc>>

RenderReturn(x) ==
    /\ ~crashed
    /\ exec[x].pc = "render"
    /\ \E outcome \in AdapterOutcomes :
         exec' = [exec EXCEPT ![x] = AfterRender(exec[x], outcome)]
    /\ UNCHANGED <<builder, regs, engine>>

GenerateReturn(x) ==
    /\ ~crashed
    /\ exec[x].pc = "generate"
    /\ \E outcome \in AdapterOutcomes :
         exec' = [exec EXCEPT ![x] = AfterGenerate(exec[x], outcome)]
    /\ UNCHANGED <<builder, regs, engine>>

DeliverReturn(x) ==
    /\ ~crashed
    /\ exec[x].pc = "deliver"
    /\ \E outcome \in AdapterOutcomes :
         exec' = [exec EXCEPT ![x] = AfterDeliver(exec[x], outcome)]
    /\ UNCHANGED <<builder, regs, engine>>

(***************************************************************************)
(* Registration                                                            *)
(***************************************************************************)
\* a RegisterLoader call that no lookup and no other write overlaps
RegisterLoader(name, d) ==
    /\ ~crashed
    /\ loadersWrite = NoWrite
    /\ Loaders' = MapPut(Loaders, name, d)
    /\ UNCHANGED <<Renderers, Outputs, Deliveries, loadersWrite, engine, exec, builder>>

\* a RegisterLoader call in two steps: it enters the map assignment ...
RegisterLoaderBegin(name, d) ==
    /\ ~crashed
    /\ loadersWrite = NoWrite
    /\ loadersWrite' = [name |-> name, d |-> d]
    /\ UNCHANGED <<Loaders, Renderers, Outputs, Deliveries, engine, exec, builder>>

\* ... and leaves it with the entry written
RegisterLoaderEnd ==
    /\ ~crashed
    /\ loadersWrite # NoWrite
    /\ Loaders' = MapPut(Loaders, loadersWrite.name, loadersWrite.d)
    /\ loadersWrite' = NoWrite
    /\ UNCHANGED <<Renderers, Outputs, Deliveries, engine, exec, builder>>

RegisterRenderer(name, r) ==
    /\ ~crashed
    /\ Renderers' = MapPut(Renderers, name, r)
    /\ UNCHANGED <<Loaders, Outputs, Deliveries, loadersWrite, engine, exec, builder>>

\* variant: an output generator is entered in the renderer table as well
RegisterOutputAlsoRenderer(name, o) ==
    /\ ~crashed
    /\ Outputs' = MapPut(Outputs, name, o)
    /\ Renderers' = MapPut(Renderers, name, o)
    /\ UNCHANGED <<Loaders, Deliveries, loadersWrite, engine, exec, builder>>

RegisterOutput(name, o) ==
    /\ ~crashed
    /\ Outputs' = MapPut(Outputs, name, o)
    /\ UNCHANGED <<Loaders, Renderers, Deliveries, loadersWrite, engine, exec, builder>>

RegisterDelivery(name, d) ==
    /\ ~crashed
    /\ Deliveries' = MapPut(Deliveries, name, d)
    /\ UNCHANGED <<Loaders, Renderers, Outputs, loadersWrite, engine, exec, builder>>

(***************************************************************************)
(* TestExecute                                                             *)
(***************************************************************************)
\* variant: TestExecute hands the job to the worker pool and returns
TestExecuteQueued(job) ==
    /\ ~crashed
    /\ exec[Tester].pc = "idle"
    /\ jobQueue' = Append(jobQueue, job)
    /\ exec' = [exec EXCEPT ![Tester] = [ExecState("done") EXCEPT !.job = job]]
    /\ UNCHANGED <<builder, regs, sendq, stopCh, workers, started, cronEntries, cronRunning,
                   cronErr, stops, stopPc, crashed>>

TestExecute(job) ==
    /\ ~crashed
    /\ exec[Tester].pc = "idle"
    /\ exec' = [exec EXCEPT ![Tester] =
                    [ExecState("execute") EXCEPT !.job = job, !.scope = NewScope(job)]]
    /\ UNCHANGED <<builder, regs, engine>>

\* the context the caller passed to TestExecute is cancelled while the
\* derived context is live
CallerCancel ==
    /\ ~crashed
    /\ exec[Tester].scope = "open"
    /\ exec' = [exec EXCEPT ![Tester].scope = "canceled"]
    /\ UNCHANGED <<builder, regs, engine>>

\* job.Timeout elapses while the context of executor x is live
TimeoutElapse(x) ==
    /\ ~crashed
    /\ exec[x].scope = "open"
    /\ exec' = [exec EXCEPT ![x].scope = "deadline"]
    /\ UNCHANGED <<builder, regs, engine>>

\* variant: cancel() is called after execute returned, not deferred
TestReturnNoDefer ==
    /\ ~crashed
    /\ exec[Tester].pc \in {"done", "panic"}
    /\ exec' = [exec EXCEPT ![Tester] =
                    IF exec[Tester].pc = "panic"
                    THEN [ExecState("idle") EXCEPT !.scope = exec[Tester].scope]
                    ELSE ExecState("idle")]
    /\ UNCHANGED <<builder, regs, engine>>

\* TestExecute returns execute's error to its caller (or unwinds with the
\* panic, which the caller may recover); the deferred cancel() runs on both
\* ways out
TestReturn ==
    /\ ~crashed
    /\ exec[Tester].pc \in {"done", "panic"}
    /\ exec' = [exec EXCEPT ![Tester] = ExecState("idle")]
    /\ UNCHANGED <<builder, regs, engine>>

(***************************************************************************)
(* NewEngine(workers)                                                      *)
(***************************************************************************)
NewEngine(n) ==
    /\ Loaders = EmptyMap
    /\ Renderers = EmptyMap
    /\ Outputs = EmptyMap
    /\ Deliveries = EmptyMap
    /\ loadersWrite = NoWrite
    /\ jobQueue = <<>>
    /\ sendq = <<>>
    /\ stopCh = "open"
    /\ workers = n
    /\ started = FALSE
    /\ cronEntries = <<>>
    /\ cronRunning = FALSE
    /\ cronErr = NilErr
    /\ stops = 0
    /\ stopPc = "idle"
    /\ crashed = FALSE
    /\ exec = [x \in Executors |-> IF x = Tester THEN ExecState("idle")
                                                 ELSE ExecState("unborn")]
    \* no JobBuilder has been made yet
    /\ jb = <<>>
    /\ built = <<>>

(***************************************************************************)
(* SpecExec: the pipeline driven by TestExecute                            *)
(***************************************************************************)
\* registrations explored in SpecExec
ExecLoaderNames == {"csv"}
ExecRendererNames == {"markdown", "html"}

InitExec == NewEngine(NumWorkers)

NextExec ==
    \/ \E n \in ExecLoaderNames : RegisterLoader(n, "A")
    \/ \E n \in ExecRendererNames : RegisterRenderer(n, "A")
    \/ \E n \in OutputNames, a \in AdapterIds : RegisterOutput(n, a)
    \/ \E n \in DeliveryNames : RegisterDelivery(n, "A")
    \/ \E j \in ExecJobs : TestExecute(j)
    \/ ExecuteBegin(Tester)
    \/ LoadReturn(Tester)
    \/ RenderReturn(Tester)
    \/ GenerateReturn(Tester)
    \/ DeliverReturn(Tester)
    \/ TestReturn

SpecExec == InitExec /\ [][NextExec]_vars

(***************************************************************************)
(* The channel e.jobQueue                                                  *)
(***************************************************************************)
\* variant: off by one, a send is accepted by a buffer that is already full
HasRoomOffByOne(q) == Len(q) <= QueueCap

\* a send completes at once iff the buffer has room
HasRoom(q) == Len(q) < QueueCap

\* variant: a job that is in the buffer already is not added again
ChanSendQueueDedup(q, job) ==
    IF \E k \in 1..Len(q) : q[k].ID = job.ID THEN q ELSE Append(q, job)

\* buffer after `e.jobQueue <- job` by a goroutine that found room
ChanSendQueue(q, job) == Append(q, job)

\* variant: the receive takes the newest entry out of the buffer
ChanRecvQueueDropLast(q, sq) ==
    IF sq = <<>> THEN SubSeq(q, 1, Len(q) - 1)
    ELSE Append(SubSeq(q, 1, Len(q) - 1), Head(sq).job)

\* buffer after a receive: the head leaves and the oldest parked sender, if
\* any, puts its job at the tail and is released
ChanRecvQueue(q, sq) ==
    IF sq = <<>> THEN Tail(q) ELSE Append(Tail(q), Head(sq).job)

ChanRecvSendq(sq) == IF sq = <<>> THEN sq ELSE Tail(sq)

\* variant: a job sent goes to the front of the buffer
SendPrepend(src, job) ==
    IF HasRoom(jobQueue)
    THEN /\ jobQueue' = <<job>> \o jobQueue
         /\ sendq' = sendq
    ELSE /\ Len(sendq) < MaxBlocked
         /\ sendq' = Append(sendq, [src |-> src, job |-> job])
         /\ jobQueue' = jobQueue

\* `e.jobQueue <- job` executed by a goroutine of kind src ("enqueue": the
\* caller of Enqueue, "cron": the goroutine cron starts for one firing)
Send(src, job) ==
    IF HasRoom(jobQueue)
    THEN /\ jobQueue' = ChanSendQueue(jobQueue, job)
         /\ sendq' = sendq
    ELSE /\ Len(sendq) < MaxBlocked
         /\ sendq' = Append(sendq, [src |-> src, job |-> job])
         /\ jobQueue' = jobQueue

(***************************************************************************)
(* Engine lifecycle and submission                                         *)
(***************************************************************************)
\* variant: the loop of Start runs once too often
StartOneMore ==
    /\ ~crashed
    /\ ~started
    /\ started' = TRUE
    /\ exec' = [x \in Executors |->
                  IF x \in 1..(workers + 1) THEN ExecState("select") ELSE exec[x]]
    /\ cronRunning' = TRUE
    /\ UNCHANGED <<builder, regs, jobQueue, sendq, stopCh, workers, cronEntries, cronErr,
                   stops, stopPc, crashed>>

\* Start is called once (a second Start is outside the explored usage)
Start ==
    /\ ~crashed
    /\ ~started
    /\ started' = TRUE
    /\ exec' = [x \in Executors |->
                  IF x \in 1..workers THEN ExecState("select") ELSE exec[x]]
    /\ cronRunning' = TRUE
    /\ UNCHANGED <<builder, regs, jobQueue, sendq, stopCh, workers, cronEntries, cronErr,
                   stops, stopPc, crashed>>

\* variant: Stop leaves the scheduler running
StopCallKeepCron ==
    /\ ~crashed
    /\ stopPc = "idle"
    /\ stopPc' = "waiting"
    /\ UNCHANGED <<builder, regs, jobQueue, sendq, stopCh, workers, started, cronEntries,
                   cronRunning, cronErr, stops, crashed, exec>>

\* cronSched.Stop(): no further firings; goroutines of earlier firings go on
StopCall ==
    /\ ~crashed
    /\ stopPc = "idle"
    /\ stopPc' = "waiting"
    /\ cronRunning' = FALSE
    /\ UNCHANGED <<builder, regs, jobQueue, sendq, stopCh, workers, started, cronEntries,
                   cronErr, stops, crashed, exec>>

\* firing goroutines that have not returned (cron's jobWaiter)
CronInFlight == {k \in 1..Len(sendq) : sendq[k].src = "cron"}

\* variant: Stop has no grace timer and waits until every firing returned
StopCloseNoGrace ==
    /\ ~crashed
    /\ stopPc = "waiting"
    /\ CronInFlight = {}
    /\ IF stopCh = "closed"
       THEN /\ stopPc' = "panic"
            /\ UNCHANGED <<stopCh, stops>>
       ELSE /\ stopCh' = "closed"
            /\ stops' = stops + 1
            /\ stopPc' = "idle"
    /\ UNCHANGED <<builder, regs, jobQueue, sendq, workers, started, cronEntries,
                   cronRunning, cronErr, crashed, exec>>

\* the select of Stop is left when the firings are done or after 2 seconds,
\* whichever comes first; then close(e.stopCh), which panics on a closed
\* channel, and Stop returns
StopClose ==
    /\ ~crashed
    /\ stopPc = "waiting"
    /\ IF stopCh = "closed"
       THEN /\ stopPc' = "panic"
            /\ UNCHANGED <<stopCh, stops>>
       ELSE /\ stopCh' = "closed"
            /\ stops' = stops + 1
            /\ stopPc' = "idle"
    /\ UNCHANGED <<builder, regs, jobQueue, sendq, workers, started, cronEntries,
                   cronRunning, cronErr, crashed, exec>>

\* the caller of Stop recovers from the panic
StopRecover ==
    /\ ~crashed
    /\ stopPc = "panic"
    /\ stopPc' = "idle"
    /\ UNCHANGED <<builder, regs, jobQueue, sendq, stopCh, workers, started, cronEntries,
                   cronRunning, cronErr, stops, crashed, exec>>

\* schedules the cron parser accepts / rejects in the explored inputs
ValidSchedules == {"@every 1s"}
ParseOk(schedule) == schedule \in ValidSchedules

ErrEmptySchedule == [kind |-> "empty schedule", arg |-> ""]
ErrParse(schedule) == [kind |-> "cron parse error", arg |-> schedule]

\* variant: the empty schedule is not checked before cronSched.AddFunc and
\* is taken as a schedule
AddCronJobResultNoEmptyCheck(job) ==
    IF job.Schedule # "" /\ ~ParseOk(job.Schedule) THEN ErrParse(job.Schedule)
    ELSE NilErr

\* variant: the loader of the job is looked up when the job is registered
AddCronJobResultEagerLookup(job) ==
    IF job.Schedule = "" THEN ErrEmptySchedule
    ELSE IF ~ParseOk(job.Schedule) THEN ErrParse(job.Schedule)
    ELSE IF MapGet(job.DataSource, "type") \notin DOMAIN Loaders
         THEN ErrNoLoaderFor(MapGet(job.DataSource, "type"))
    ELSE NilErr

AddCronJobResult(job) ==
    IF job.Schedule = "" THEN ErrEmptySchedule
    ELSE IF ~ParseOk(job.Schedule) THEN ErrParse(job.Schedule)
    ELSE NilErr

AddCronJob(job) ==
    /\ ~crashed
    /\ cronErr' = AddCronJobResult(job)
    /\ IF AddCronJobResult(job) = NilErr
       THEN /\ Len(cronEntries) < MaxCronEntries
            /\ cronEntries' = Append(cronEntries, job)
       ELSE cronEntries' = cronEntries
    /\ UNCHANGED <<builder, regs, jobQueue, sendq, stopCh, workers, started, cronRunning,
                   stops, stopPc, crashed, exec>>

\* variant: the scheduler runs from construction on, entries fire whether
\* or not Start was called
FireAlways(k) ==
    /\ ~crashed
    /\ k \in 1..Len(cronEntries)
    /\ Send("cron", cronEntries[k])
    /\ UNCHANGED <<builder, regs, stopCh, workers, started, cronEntries, cronRunning,
                   cronErr, stops, stopPc, crashed, exec>>

\* the closure registered by AddCronJob, run by cron in a goroutine of its
\* own each time entry k is due
Fire(k) ==
    /\ ~crashed
    /\ cronRunning
    /\ k \in 1..Len(cronEntries)
    /\ Send("cron", cronEntries[k])
    /\ UNCHANGED <<builder, regs, stopCh, workers, started, cronEntries, cronRunning,
                   cronErr, stops, stopPc, crashed, exec>>

Enqueue(job) ==
    /\ ~crashed
    /\ Send("enqueue", job)
    /\ UNCHANGED <<builder, regs, stopCh, workers, started, cronEntries, cronRunning,
                   cronErr, stops, stopPc, crashed, exec>>

(***************************************************************************)
(* workerLoop                                                              *)
(***************************************************************************)
\* variant: the worker reads the head of the queue and leaves it there
WorkerRecvPeek(w) ==
    /\ ~crashed
    /\ exec[w].pc = "select"
    /\ jobQueue # <<>>
    /\ exec' = [exec EXCEPT ![w] = [ExecState("execute") EXCEPT
                                       !.job = Head(jobQueue),
                                       !.scope = NewScope(Head(jobQueue))]]
    /\ UNCHANGED <<builder, regs, engine>>

\* case job := <-e.jobQueue
WorkerRecv(w) ==
    /\ ~crashed
    /\ exec[w].pc = "select"
    /\ jobQueue # <<>>
    /\ exec' = [exec EXCEPT ![w] = [ExecState("execute") EXCEPT
                                       !.job = Head(jobQueue),
                                       !.scope = NewScope(Head(jobQueue))]]
    /\ jobQueue' = ChanRecvQueue(jobQueue, sendq)
    /\ sendq' = ChanRecvSendq(sendq)
    /\ UNCHANGED <<builder, regs, stopCh, workers, started, cronEntries, cronRunning,
                   cronErr, stops, stopPc, crashed>>

\* case <-e.stopCh (select picks among the ready cases at random)
WorkerExit(w) ==
    /\ ~crashed
    /\ exec[w].pc = "select"
    /\ stopCh = "closed"
    /\ exec' = [exec EXCEPT ![w] = ExecState("exited")]
    /\ UNCHANGED <<builder, regs, engine>>

\* variant: a worker whose execution returned an error leaves its loop
WorkerFinishQuitOnError(w) ==
    /\ ~crashed
    /\ exec[w].pc = "done"
    /\ exec' = [exec EXCEPT ![w] = IF exec[w].err = NilErr THEN ExecState("select")
                                                          ELSE ExecState("exited")]
    /\ UNCHANGED <<builder, regs, engine>>

\* execute returned: its error is discarded, cancel() is called (the
\* worker has no context again), next iteration
WorkerFinish(w) ==
    /\ ~crashed
    /\ exec[w].pc = "done"
    /\ exec' = [exec EXCEPT ![w] = ExecState("select")]
    /\ UNCHANGED <<builder, regs, engine>>

(***************************************************************************)
(* Spec: the engine                                                        *)
(***************************************************************************)
Init == NewEngine(NumWorkers)

Next ==
    \/ RegisterLoader("csv", "A")
    \/ RegisterRenderer("markdown", "A")
    \/ RegisterOutput("html", "A")
    \/ RegisterDelivery("console", "A")
    \/ Start
    \/ StopCall
    \/ StopClose
    \/ StopRecover
    \/ \E j \in EngineJobs : AddCronJob(j)
    \/ \E k \in 1..MaxCronEntries : Len(jobQueue) < MaxQueued /\ Fire(k)
    \/ \E j \in EngineJobs : Len(jobQueue) < MaxQueued /\ Enqueue(j)
    \/ \E w \in Workers : WorkerRecv(w)
    \/ \E w \in Workers : WorkerExit(w)
    \/ \E w \in Workers : WorkerFinish(w)
    \/ \E w \in Workers : ExecuteBegin(w)
    \/ \E w \in Workers : LoadReturn(w)
    \/ \E w \in Workers : RenderReturn(w)
    \/ \E w \in Workers : GenerateReturn(w)
    \/ \E w \in Workers : DeliverReturn(w)

Spec == Init /\ [][Next]_vars

(***************************************************************************)
(* SpecFull: nothing registered, the queue fills to its capacity           *)
(***************************************************************************)
InitFull == NewEngine(NumWorkers)

NextFull ==
    \/ Start
    \/ StopCall
    \/ StopClose
    \/ StopRecover
    \/ AddCronJob(JobCron)
    \/ \E k \in 1..MaxCronEntries : Fire(k)
    \/ Enqueue(JobCron)
    \/ \E w \in Workers : WorkerRecv(w)
    \/ \E w \in Workers : WorkerExit(w)
    \/ \E w \in Workers : WorkerFinish(w)
    \/ \E w \in Workers : ExecuteBegin(w)

SpecFull == InitFull /\ [][NextFull]_vars

\* the timer of Stop's select expires, so a Stop call that waits goes on
SpecFullFair == SpecFull /\ WF_vars(StopClose)

(***************************************************************************)
(* SpecPool: the queue and the worker pool with nothing registered (every  *)
(* execution ends with the no-loader error), two kinds of job              *)
(***************************************************************************)
InitPool == NewEngine(NumWorkers)

NextPool ==
    \/ Start
    \/ StopCall
    \/ StopClose
    \/ StopRecover
    \/ \E j \in EngineJobs : AddCronJob(j)
    \/ \E k \in 1..MaxCronEntries : Len(jobQueue) < MaxQueued /\ Fire(k)
    \/ \E j \in EngineJobs : Len(jobQueue) < MaxQueued /\ Enqueue(j)
    \/ \E w \in Workers : WorkerRecv(w)
    \/ \E w \in Workers : WorkerExit(w)
    \/ \E w \in Workers : WorkerFinish(w)
    \/ \E w \in Workers : ExecuteBegin(w)

SpecPool == InitPool /\ [][NextPool]_vars

(***************************************************************************)
(* SpecValid: jobs that break the invariants of a ReportJob are handed to  *)
(* AddCronJob and Enqueue of an engine with one worker                     *)
(***************************************************************************)
InitValid == NewEngine(1)

NextValid ==
    \/ Start
    \/ \E j \in ValidationJobs : AddCronJob(j)
    \/ \E k \in 1..MaxCronEntries : Len(jobQueue) < MaxQueued /\ Fire(k)
    \/ \E j \in ValidationJobs : Len(jobQueue) < MaxQueued /\ Enqueue(j)
    \/ \E w \in Workers : WorkerRecv(w)
    \/ \E w \in Workers : WorkerFinish(w)
    \/ \E w \in Workers : ExecuteBegin(w)

SpecValid == InitValid /\ [][NextValid]_vars

(***************************************************************************)
(* SpecLate: one worker; adapters are registered only after the cron job   *)
(* was added and while the worker is not inside execute                    *)
(***************************************************************************)
InitLate == NewEngine(1)

\* the worker is between executions
WorkerOutside == \A w \in Workers : exec[w].pc \in {"unborn", "select"}

RegisterLate ==
    /\ cronEntries # <<>>
    /\ WorkerOutside
    /\ \/ \E a \in AdapterIds : RegisterLoader("csv", a)
       \/ RegisterRenderer("markdown", "A")
       \/ \E a \in AdapterIds : RegisterOutput("html", a)
       \/ \E a \in AdapterIds : RegisterDelivery("console", a)

NextLate ==
    \/ RegisterLate
    \/ Start
    \/ AddCronJob(JobCron)
    \/ \E k \in 1..MaxCronEntries : Len(jobQueue) < MaxQueued /\ Fire(k)
    \/ \E w \in Workers : WorkerRecv(w)
    \/ \E w \in Workers : WorkerFinish(w)
    \/ \E w \in Workers : ExecuteBegin(w)
    \/ \E w \in Workers : LoadReturn(w)
    \/ \E w \in Workers : RenderReturn(w)
    \/ \E w \in Workers : GenerateReturn(w)
    \/ \E w \in Workers : DeliverReturn(w)

SpecLate == InitLate /\ [][NextLate]_vars

(***************************************************************************)
(* SpecReg: the four registries alone.  Adapter "A" is registered under    *)
(* any name, adapter "B" only under a name that is taken, so that a        *)
(* registry holding "B" has been overwritten.                              *)
(***************************************************************************)
InitReg == NewEngine(NumWorkers)

NextReg ==
    \/ \E n \in LoaderNames : RegisterLoader(n, "A")
    \/ \E n \in RendererNames : RegisterRenderer(n, "A")
    \/ \E n \in OutputNames : RegisterOutput(n, "A")
    \/ \E n \in DeliveryNames : RegisterDelivery(n, "A")
    \/ \E n \in DOMAIN Loaders : RegisterLoader(n, "B")
    \/ \E n \in DOMAIN Renderers : RegisterRenderer(n, "B")
    \/ \E n \in DOMAIN Outputs : RegisterOutput(n, "B")
    \/ \E n \in DOMAIN Deliveries : RegisterDelivery(n, "B")

SpecReg == InitReg /\ [][NextReg]_vars

(***************************************************************************)
(* SpecRace: RegisterLoader calls run while the worker of a started engine *)
(* looks its loader up                                                     *)
(***************************************************************************)
InitRace == NewEngine(1)

NextRace ==
    \/ \E a \in AdapterIds : RegisterLoaderBegin("csv", a)
    \/ RegisterLoaderEnd
    \/ Start
    \/ Len(jobQueue) < MaxQueued /\ Enqueue(JobCron)
    \/ \E w \in Workers : WorkerRecv(w)
    \/ \E w \in Workers : WorkerFinish(w)
    \/ \E w \in Workers : ExecuteBegin(w)
    \/ \E w \in Workers : ExecuteBeginRacing(w)
    \/ \E w \in Workers : LoadReturn(w)

SpecRace == InitRace /\ [][NextRace]_vars

(***************************************************************************)
(* SpecSched: the scheduled job and the ad-hoc job are different jobs, so  *)
(* that a queued job tells which way it was submitted                      *)
(***************************************************************************)
InitSched == NewEngine(NumWorkers)

NextSched ==
    \/ Start
    \/ AddCronJob(JobCron)
    \/ \E k \in 1..MaxCronEntries : Len(jobQueue) < MaxQueued /\ Fire(k)
    \/ Len(jobQueue) < MaxQueued /\ Enqueue(JobAdhoc)
    \/ \E w \in Workers : WorkerRecv(w)
    \/ \E w \in Workers : WorkerFinish(w)
    \/ \E w \in Workers : ExecuteBegin(w)

SpecSched == InitSched /\ [][NextSched]_vars

\* a worker goroutine that can take a step is scheduled (adapters return,
\* nothing is registered here so every execution ends with an error)
SpecSchedFair ==
    /\ SpecSched
    /\ \A w \in Workers :
         /\ WF_vars(WorkerRecv(w))
         /\ WF_vars(ExecuteBegin(w))
         /\ WF_vars(WorkerFinish(w))

(***************************************************************************)
(* SpecStop: the engine is started before it is stopped (Start is called   *)
(* once, Stop only on a started engine); nothing is registered             *)
(***************************************************************************)
InitStop == NewEngine(NumWorkers)

NextStop ==
    \/ Start
    \/ started /\ StopCall
    \/ StopClose
    \/ StopRecover
    \/ AddCronJob(JobCron)
    \/ \E k \in 1..MaxCronEntries : Len(jobQueue) < MaxQueued /\ Fire(k)
    \/ Len(jobQueue) < MaxQueued /\ Enqueue(JobAdhoc)
    \/ \E w \in Workers : WorkerRecv(w)
    \/ \E w \in Workers : WorkerExit(w)
    \/ \E w \in Workers : WorkerFinish(w)
    \/ \E w \in Workers : ExecuteBegin(w)

SpecStop == InitStop /\ [][NextStop]_vars

(***************************************************************************)
(* SpecTest: TestExecute calls next to a running worker pool; the loader   *)
(* "csv" and the renderer "markdown" get registered, no output generator   *)
(***************************************************************************)
InitTest == NewEngine(NumWorkers)

NextTest ==
    \/ RegisterLoader("csv", "A")
    \/ RegisterRenderer("markdown", "A")
    \/ Start
    \/ AddCronJob(JobCron)
    \/ \E k \in 1..MaxCronEntries : Len(jobQueue) < MaxQueued /\ Fire(k)
    \/ \E j \in {JobCron, JobEmpty} : TestExecute(j)
    \/ TestReturn
    \/ \E w \in Workers : WorkerRecv(w)
    \/ \E w \in Workers : WorkerFinish(w)
    \/ \E x \in Executors : ExecuteBegin(x)
    \/ \E x \in Executors : LoadReturn(x)
    \/ \E x \in Executors : RenderReturn(x)

SpecTest == InitTest /\ [][NextTest]_vars

(***************************************************************************)
(* SpecAlias: the caller submits one job with AddCronJob and afterwards    *)
(* writes to the DataSource map of the value it passed.  A ReportJob is    *)
(* copied field by field, and the field DataSource is a Go map: the copy   *)
(* in the closure, the copies in the channel and the copy held by a worker *)
(* all refer to the map of the caller.                                     *)
(***************************************************************************)
\* job j after the map its DataSource refers to got "type" set to t
WithSourceType(j, t) == [j EXCEPT !.DataSource = MapPut(@, "type", t)]

\* job.DataSource["type"] = t, executed by the caller after AddCronJob
\* returned; every copy of the job sees the write
CallerMutate(t) ==
    /\ ~crashed
    /\ cronEntries # <<>>
    /\ cronEntries' = [k \in 1..Len(cronEntries) |-> WithSourceType(cronEntries[k], t)]
    /\ jobQueue' = [k \in 1..Len(jobQueue) |-> WithSourceType(jobQueue[k], t)]
    /\ sendq' = [k \in 1..Len(sendq) |->
                   [sendq[k] EXCEPT !.job = WithSourceType(@, t)]]
    /\ exec' = [x \in Executors |->
                  IF exec[x].job = NoJob THEN exec[x]
                  ELSE [exec[x] EXCEPT !.job = WithSourceType(@, t)]]
    /\ UNCHANGED <<builder, regs, stopCh, workers, started, cronRunning, cronErr, stops,
                   stopPc, crashed>>

InitAlias == NewEngine(NumWorkers)

NextAlias ==
    \/ RegisterLoader("sql", "A")
    \/ cronEntries = <<>> /\ AddCronJob(JobCron)
    \/ \E t \in LoaderNames : CallerMutate(t)
    \/ Start
    \/ \E k \in 1..MaxCronEntries : Len(jobQueue) < MaxQueued /\ Fire(k)
    \/ \E w \in Workers : WorkerRecv(w)
    \/ \E w \in Workers : WorkerFinish(w)
    \/ \E w \in Workers : ExecuteBegin(w)
    \/ \E w \in Workers : LoadReturn(w)

SpecAlias == InitAlias /\ [][NextAlias]_vars

(***************************************************************************)
(* SpecRender: two renderers that can be told apart, "A" under "markdown"  *)
(* and "B" under "html"; TestExecute runs jobs that differ in data source, *)
(* template and outputs                                                    *)
(***************************************************************************)
RenderJobs == {JobFull, JobSql, JobEmpty, JobHtml}

InitRender == NewEngine(NumWorkers)

NextRender ==
    \/ \E n \in LoaderNames : RegisterLoader(n, "A")
    \/ RegisterRenderer("markdown", "A")
    \/ RegisterRenderer("html", "B")
    \/ \E j \in RenderJobs : TestExecute(j)
    \/ ExecuteBegin(Tester)
    \/ LoadReturn(Tester)
    \/ RenderReturn(Tester)
    \/ TestReturn

SpecRender == InitRender /\ [][NextRender]_vars

(***************************************************************************)
(* SpecOne: an engine made with NewEngine(1), fewer workers than the model *)
(* has executors; jobs are enqueued before and after Start                 *)
(***************************************************************************)
InitOne == NewEngine(1)

NextOne ==
    \/ Start
    \/ StopCall
    \/ StopClose
    \/ StopRecover
    \/ \E w \in Workers : WorkerExit(w)
    \/ \E j \in EngineJobs : Len(jobQueue) < MaxQueued /\ Enqueue(j)
    \/ \E w \in Workers : WorkerRecv(w)
    \/ \E w \in Workers : WorkerFinish(w)
    \/ \E w \in Workers : ExecuteBegin(w)

SpecOne == InitOne /\ [][NextOne]_vars

\* a worker goroutine that can take a step is scheduled
SpecOneFair ==
    /\ SpecOne
    /\ \A w \in Workers :
         /\ WF_vars(WorkerRecv(w))
         /\ WF_vars(ExecuteBegin(w))
         /\ WF_vars(WorkerFinish(w))

(***************************************************************************)
(* SpecScope: TestExecute calls whose context is cancelled by the caller   *)
(* or by the timeout; the renderer may be missing, so a call can panic     *)
(***************************************************************************)
ScopeJobs == {JobEmpty, JobSql, JobCron, JobZeroTimeout}

InitScope == NewEngine(NumWorkers)

NextScope ==
    \/ RegisterLoader("csv", "A")
    \/ RegisterRenderer("markdown", "A")
    \/ \E j \in ScopeJobs : TestExecute(j)
    \/ CallerCancel
    \/ TimeoutElapse(Tester)
    \/ ExecuteBegin(Tester)
    \/ LoadReturn(Tester)
    \/ RenderReturn(Tester)
    \/ TestReturn

SpecScope == InitScope /\ [][NextScope]_vars

(***************************************************************************)
(* JobBuilder                                                              *)
(***************************************************************************)
\* longest Outputs or Delivery list a builder is asked to collect
MaxAppended == 1

\* ReportJob{}: every field at its zero value (a nil map reads as an empty one)
ZeroJob == [ID |-> "", Name |-> "", TemplatePath |-> "", DataSource |-> EmptyMap,
            Outputs |-> <<>>, Delivery |-> <<>>, Schedule |-> "", Timeout |-> 0,
            Labels |-> EmptyMap]

\* generateJobID(): "job-" and four random bytes in hexadecimal; which bytes
\* plays no part in what the builder does
GeneratedIDs == {"job-0a1b2c3d"}

\* fmt.Errorf with a formatted message
Errorf(msg) == [kind |-> "error", arg |-> msg]

\* time.Duration.String() of a duration given in milliseconds, below a minute
DurationString(ms) ==
    IF ms = 0 THEN "0s"
    ELSE IF ms < 1000 THEN ToString(ms) \o "ms"
    ELSE IF ms % 1000 = 0 THEN ToString(ms \div 1000) \o "s"
    ELSE ToString(ms \div 1000) \o "." \o ToString(ms % 1000) \o "s"

\* arguments the Schedule* methods are called with
Hours == {-1, 0, 23, 24}
Minutes == {-1, 0, 59, 60}
Days == {0, 1, 31, 32}
Intervals == {0, 999, 1000}
TimeOk(hour, minute) == ~(hour < 0 \/ hour > 23 \/ minute < 0 \/ minute > 59)

\* one call of a builder method that leaves the builder as nb
BuilderCall(nb) ==
    /\ Len(jb) = 1
    /\ built = <<>>
    /\ jb' = <<nb>>
    /\ UNCHANGED <<built, regs, engine, exec>>

NewJob(name) ==
    /\ jb = <<>>
    /\ \E id \in GeneratedIDs :
         jb' = <<[job |-> [ZeroJob EXCEPT !.ID = id, !.Name = name, !.Timeout = 30],
                  err |-> NilErr]>>
    /\ UNCHANGED <<built, regs, engine, exec>>

WithID(id) ==
    BuilderCall(IF jb[1].err # NilErr THEN jb[1]
                ELSE [jb[1] EXCEPT !.job.ID = id])

WithTemplate(path) ==
    BuilderCall(IF jb[1].err # NilErr THEN jb[1]
                ELSE [jb[1] EXCEPT !.job.TemplatePath = path])

WithCSVData(path) ==
    BuilderCall(IF jb[1].err # NilErr THEN jb[1]
                ELSE [jb[1] EXCEPT !.job.DataSource =
                          MapPut(MapPut(@, "type", "csv"), "path", path)])

WithCustomDataSource(config) ==
    BuilderCall(IF jb[1].err # NilErr THEN jb[1]
                ELSE [jb[1] EXCEPT !.job.DataSource = config])

OutputHTML ==
    BuilderCall(IF jb[1].err # NilErr THEN jb[1]
                ELSE [jb[1] EXCEPT !.job.Outputs = Append(@, "html")])

DeliverToConsole ==
    BuilderCall(IF jb[1].err # NilErr THEN jb[1]
                ELSE [jb[1] EXCEPT !.job.Delivery = Append(@, DS("console"))])

ScheduleDailyOverwrite(hour, minute) ==
    BuilderCall(IF ~TimeOk(hour, minute)
                THEN [jb[1] EXCEPT !.err = Errorf("invalid time: " \o ToString(hour)
                                                   \o ":" \o ToString(minute))]
                ELSE [jb[1] EXCEPT !.job.Schedule =
                          "0 " \o ToString(minute) \o " " \o ToString(hour) \o " * * *"])

ScheduleDaily(hour, minute) ==
    BuilderCall(IF jb[1].err # NilErr THEN jb[1]
                ELSE IF ~TimeOk(hour, minute)
                THEN [jb[1] EXCEPT !.err = Errorf("invalid time: " \o ToString(hour)
                                                   \o ":" \o ToString(minute))]
                ELSE [jb[1] EXCEPT !.job.Schedule =
                          "0 " \o ToString(minute) \o " " \o ToString(hour) \o " * * *"])

ScheduleWeekly(weekday, hour, minute) ==
    BuilderCall(IF jb[1].err # NilErr THEN jb[1]
                ELSE IF ~TimeOk(hour, minute)
                THEN [jb[1] EXCEPT !.err = Errorf("invalid time: " \o ToString(hour)
                                                   \o ":" \o ToString(minute))]
                ELSE [jb[1] EXCEPT !.job.Schedule =
                          "0 " \o ToString(minute) \o " " \o ToString(hour)
                               \o " * * " \o ToString(weekday)])

ScheduleMonthly(day, hour, minute) ==
    BuilderCall(IF jb[1].err # NilErr THEN jb[1]
                ELSE IF day < 1 \/ day > 31 \/ ~TimeOk(hour, minute)
                THEN [jb[1] EXCEPT !.err = Errorf("invalid date/time: day " \o ToString(day)
                                                   \o ", " \o ToString(hour)
                                                   \o ":" \o ToString(minute))]
                ELSE [jb[1] EXCEPT !.job.Schedule =
                          "0 " \o ToString(minute) \o " " \o ToString(hour)
                               \o " " \o ToString(day) \o " * *"])

ScheduleEvery(interval) ==
    BuilderCall(IF jb[1].err # NilErr THEN jb[1]
                ELSE IF interval < 1000
                THEN [jb[1] EXCEPT !.err = Errorf("interval too short: "
                                                   \o DurationString(interval))]
                ELSE [jb[1] EXCEPT !.job.Schedule =
                          "@every " \o DurationString(interval)])

WithTimeout(timeout) ==
    BuilderCall(IF jb[1].err # NilErr THEN jb[1]
                ELSE [jb[1] EXCEPT !.job.Timeout = timeout])

WithLabel(key, value) ==
    BuilderCall(IF jb[1].err # NilErr THEN jb[1]
                ELSE [jb[1] EXCEPT !.job.Labels = MapPut(@, key, value)])

\* what Build() returns for the builder b
BuildResult(b) ==
    IF b.err # NilErr THEN [job |-> ZeroJob, err |-> b.err]
    ELSE IF b.job.Name = ""
    THEN [job |-> ZeroJob, err |-> Errorf("job name is required")]
    ELSE IF b.job.TemplatePath = ""
    THEN [job |-> ZeroJob, err |-> Errorf("template path is required")]
    ELSE IF MapGet(b.job.DataSource, "type") = ""
    THEN [job |-> ZeroJob, err |-> Errorf("data source is required")]
    ELSE IF Len(b.job.Outputs) = 0
    THEN [job |-> ZeroJob, err |-> Errorf("at least one output format is required")]
    ELSE IF Len(b.job.Delivery) = 0
    THEN [job |-> ZeroJob, err |-> Errorf("at least one delivery method is required")]
    ELSE [job |-> b.job, err |-> NilErr]

Build ==
    /\ Len(jb) = 1
    /\ built = <<>>
    /\ built' = <<BuildResult(jb[1])>>
    /\ UNCHANGED <<jb, regs, engine, exec>>

(***************************************************************************)
(* SpecBuilder: one JobBuilder, from NewJob through its method calls to    *)
(* Build                                                                   *)
(***************************************************************************)
InitBuilder == NewEngine(NumWorkers)

NextBuilder ==
    \/ \E name \in {"", "daily"} : NewJob(name)
    \/ WithID("custom")
    \/ \E path \in {"", "report.md"} : WithTemplate(path)
    \/ WithCSVData("data.csv")
    \/ \E config \in {EmptyMap, DS("sql")} : WithCustomDataSource(config)
    \/ Len(jb) = 1 /\ Len(jb[1].job.Outputs) < MaxAppended /\ OutputHTML
    \/ Len(jb) = 1 /\ Len(jb[1].job.Delivery) < MaxAppended /\ DeliverToConsole
    \/ \E hour \in Hours, minute \in Minutes : ScheduleDaily(hour, minute)
    \/ \E hour \in {23, 24} : ScheduleWeekly(1, hour, 0)
    \/ \E day \in Days, hour \in {0, 24} : ScheduleMonthly(day, hour, 59)
    \/ \E interval \in Intervals : ScheduleEvery(interval)
    \/ WithTimeout(60)
    \/ WithLabel("env", "prod")
    \/ Build

SpecBuilder == InitBuilder /\ [][NextBuilder]_vars

(***************************************************************************)
(* Properties                                                              *)
(***************************************************************************)
Rank(op) ==
    CASE op = "Load" -> 1
      [] op = "Render" -> 2
      [] op = "Generate" -> 3
      [] op = "Deliver" -> 4

\* positions of the calls of kind op in a log
CallsOf(log, op) == {a \in 1..Len(log) : log[a].op = op}

\* the Deliver calls of a log, in the order they were made
RECURSIVE Select(_, _)
Select(log, op) ==
    IF log = <<>> THEN <<>>
    ELSE IF Head(log).op = op THEN <<Head(log)>> \o Select(Tail(log), op)
    ELSE Select(Tail(log), op)

Failed(ret) == ret \in {"err", "deadline"}

\* C1: the adapter calls of every execution are ordered Load, Render, all
\* Generates, all Delivers; a call is made only after every earlier call
\* has returned, Render only after Load, Generate only after Render, and
\* Deliver only after one Generate per entry of job.Outputs.
C1_StageOrder ==
    \A x \in Executors :
      LET log == exec[x].log IN
      /\ \A a, b \in 1..Len(log) :
           a < b => /\ Rank(log[a].op) <= Rank(log[b].op)
                    /\ log[a].ret # "pending"
                    /\ ~(log[a].op = log[b].op /\ log[a].op \in {"Load", "Render"})
      /\ \A b \in 1..Len(log) :
           /\ log[b].op = "Render" => \E a \in 1..(b - 1) : log[a].op = "Load"
           /\ log[b].op = "Generate" => \E a \in 1..(b - 1) : log[a].op = "Render"
           /\ log[b].op = "Deliver" =>
                /\ \E a \in 1..(b - 1) : log[a].op = "Render"
                /\ Cardinality(CallsOf(log, "Generate")) = Len(exec[x].job.Outputs)

C1_Witness ==
    /\ exec[Tester].pc = "done"
    /\ exec[Tester].err = NilErr
    /\ exec[Tester].job = JobFull
    /\ Len(exec[Tester].log) = 6

\* C2 (as claimed): an execution in which an adapter call or an adapter
\* lookup failed invokes no further adapter and has returned a non-nil
\* error.
C2_FirstErrorReturnsError ==
    \A x \in Executors :
      LET s == exec[x] IN
      /\ \A a \in 1..Len(s.log) :
           Failed(s.log[a].ret) => /\ a = Len(s.log)
                                   /\ s.pc = "done"
                                   /\ s.err # NilErr
      \* the renderer lookup of an execution past Load found nothing
      /\ s.pc = "panic" => FALSE

\* C3: the Deliver calls of an execution are for Delivery[1], Delivery[2],
\* ... in that order, one call each; a failed Deliver is the last call and
\* the execution has returned a non-nil error.
C3_DeliveryOrder ==
    \A x \in Executors :
      LET s == exec[x]
          d == Select(s.log, "Deliver") IN
      /\ Len(d) <= Len(s.job.Delivery)
      /\ \A n \in 1..Len(d) :
           /\ d[n].idx = n
           /\ n < Len(d) => d[n].ret = "ok"
           /\ Failed(d[n].ret) => /\ n = Len(d)
                                  /\ s.log[Len(s.log)] = d[n]
                                  /\ s.pc = "done"
                                  /\ s.err # NilErr

C3_Witness ==
    /\ exec[Tester].job = JobFull
    /\ exec[Tester].pc = "done"
    /\ Len(Select(exec[Tester].log, "Deliver")) = 1
    /\ Failed(exec[Tester].log[Len(exec[Tester].log)].ret)
    /\ "email" \in DOMAIN Deliveries

\* C4: in a successful execution every Deliver call was given the same
\* list, of len(job.Outputs) files, the k-th being what the k-th Generate
\* call returned for job.Outputs[k].
C4_FilesDelivered ==
    \A x \in Executors :
      LET s == exec[x]
          g == Select(s.log, "Generate")
          d == Select(s.log, "Deliver") IN
      (s.pc = "done" /\ s.err = NilErr) =>
         /\ Len(g) = Len(s.job.Outputs)
         /\ Len(d) = Len(s.job.Delivery)
         /\ \A n \in 1..Len(d) :
              /\ Len(d[n].files) = Len(s.job.Outputs)
              /\ \A k \in 1..Len(s.job.Outputs) :
                   d[n].files[k] = OutputFile(g[k].by, s.job.Outputs[k], k)
              /\ d[n].files = d[1].files

C4_Witness ==
    /\ exec[Tester].pc = "done"
    /\ exec[Tester].err = NilErr
    /\ exec[Tester].job \in {JobFull, JobDup}
    /\ Len(exec[Tester].files) = 2
    /\ Len(Select(exec[Tester].log, "Deliver")) >= 1

\* C5: an execution dispatched while no loader is registered under
\* job.DataSource["type"] returns the no-loader error for that type without
\* having called any adapter or produced any file.
C5_NoLoader ==
    [][\A x \in Executors :
         LET t == MapGet(exec[x].job.DataSource, "type") IN
         (exec[x].pc = "execute" /\ exec'[x].pc # "execute" /\ t \notin DOMAIN Loaders)
           => /\ exec'[x].pc = "done"
              /\ exec'[x].err = ErrNoLoaderFor(t)
              /\ exec'[x].log = <<>>
              /\ exec'[x].files = <<>>]_vars

C5_Witness ==
    /\ exec[Tester].pc = "done"
    /\ exec[Tester].job = JobSql
    /\ exec[Tester].err = ErrNoLoaderFor("sql")
    /\ "csv" \in DOMAIN Loaders

\* C6 (as claimed): a firing never waits for queue space, that is, no
\* goroutine started by cron for a firing is parked in the send on jobQueue.
C6_FiringNeverWaits ==
    \A k \in 1..Len(sendq) : sendq[k].src # "cron"

\* C7 (as claimed): Enqueue is non-blocking, that is, no caller of Enqueue
\* is parked in the send on jobQueue.
C7_EnqueueNeverWaits ==
    \A k \in 1..Len(sendq) : sendq[k].src # "enqueue"

\* C8 (as claimed): once Stop has returned, an Enqueue call adds nothing to
\* the queue.
C8_EnqueueAfterStopRejected ==
    [][stops > 0 =>
         \A j \in EngineJobs : ~(Enqueue(j) /\ jobQueue' # jobQueue)]_vars

InPipeline(x) == exec[x].pc \in {"execute", "load", "render", "generate", "deliver", "done"}

\* C9 (as claimed): once Stop has returned, no worker is between dequeuing
\* a job and finishing execute.
C9_NoWorkerExecutingAfterStop ==
    stops > 0 => \A w \in Workers : ~InPipeline(w)

\* C10: the number of jobs in the buffer of jobQueue is always between 0
\* and the capacity of the channel.
C10_QueueBounded ==
    /\ Len(jobQueue) >= 0
    /\ Len(jobQueue) <= QueueCap

C10_Witness ==
    /\ Len(jobQueue) = QueueCap
    /\ sendq # <<>>
    /\ \E w \in Workers : exec[w].pc = "execute"

\* worker w takes a job from the queue in this step
RecvStep(w) == exec[w].pc = "select" /\ exec'[w].pc = "execute"

\* C11: jobs leave the queue in the order they entered it: a receive hands
\* the worker the oldest job of the buffer and keeps the others in order
\* (a parked sender's job joins at the tail), and any other change of the
\* buffer is one job added at the tail.
C11_Fifo ==
    [][/\ \A w \in Workers :
            RecvStep(w) =>
              /\ exec'[w].job = Head(jobQueue)
              /\ SubSeq(jobQueue', 1, Len(jobQueue) - 1) = Tail(jobQueue)
              /\ Len(jobQueue') \in {Len(jobQueue) - 1, Len(jobQueue)}
       /\ ((\A w \in Workers : ~RecvStep(w)) /\ jobQueue' # jobQueue) =>
              \E j \in EngineJobs : jobQueue' = Append(jobQueue, j)]_vars

C11_Witness ==
    \E w \in Workers :
      /\ exec[w].pc = "execute"
      /\ exec[w].job = JobCron
      /\ jobQueue = <<JobAdhoc>>

\* C12 (as claimed): once stopCh is closed no worker takes a job from the
\* queue.
C12_NoNewExecutionAfterStop ==
    [][stopCh = "closed" => \A w \in Workers : ~RecvStep(w)]_vars

\* C13 (as claimed): whatever the registries hold and whatever job was
\* dequeued, no worker is terminated by the failure of an execution.
C13_WorkerSurvivesFailure ==
    /\ ~crashed
    /\ \A w \in Workers : exec[w].pc # "panic"

\* C14: AddCronJob of a job with an empty Schedule returns the
\* empty-schedule error and leaves the scheduler's entries and the queue as
\* they were; no entry of the scheduler ever has an empty Schedule.
C14_EmptySchedule ==
    [][/\ \A j \in EngineJobs :
            (j.Schedule = "" /\ AddCronJob(j)) =>
              /\ cronErr' = ErrEmptySchedule
              /\ cronEntries' = cronEntries
              /\ jobQueue' = jobQueue
              /\ sendq' = sendq
       /\ \A k \in 1..Len(cronEntries') : cronEntries'[k].Schedule # ""]_vars

C14_Witness ==
    /\ cronErr = ErrEmptySchedule
    /\ cronEntries = <<>>
    /\ started
    /\ cronRunning

\* C15 (as claimed): a job with a Timeout of 0 or less is accepted neither
\* by AddCronJob nor by ad-hoc dispatch, so no scheduler entry, queued job
\* or execution has a non-positive Timeout.
C15_TimeoutValidated ==
    /\ \A k \in 1..Len(cronEntries) : cronEntries[k].Timeout > 0
    /\ \A k \in 1..Len(jobQueue) : jobQueue[k].Timeout > 0
    /\ \A x \in Executors : InPipeline(x) => exec[x].job.Timeout > 0

\* C16 (as claimed): every job AddCronJob accepted has a non-empty ID, Name
\* and TemplatePath, at least one output and at least one delivery.
C16_AcceptedJobsValid ==
    \A k \in 1..Len(cronEntries) :
      /\ cronEntries[k].ID # ""
      /\ cronEntries[k].Name # ""
      /\ cronEntries[k].TemplatePath # ""
      /\ Len(cronEntries[k].Outputs) >= 1
      /\ Len(cronEntries[k].Delivery) >= 1

\* the adapter registered now under the name that call c of job j looks up
RegisteredFor(j, c) ==
    CASE c.op = "Load" -> MapGet(Loaders, MapGet(j.DataSource, "type"))
      [] c.op = "Render" -> MapGet(Renderers, "markdown")
      [] c.op = "Generate" -> MapGet(Outputs, j.Outputs[c.idx])
      [] c.op = "Deliver" -> MapGet(Deliveries, MapGet(j.Delivery[c.idx], "type"))

C18_OverwriteWins ==
    [][\A a \in AdapterIds :
         /\ \A n \in LoaderNames : RegisterLoader(n, a) => MapGet(Loaders', n) = a
         /\ \A n \in RendererNames : RegisterRenderer(n, a) => MapGet(Renderers', n) = a
         /\ \A n \in OutputNames : RegisterOutput(n, a) => MapGet(Outputs', n) = a
         /\ \A n \in DeliveryNames : RegisterDelivery(n, a) => MapGet(Deliveries', n) = a]_vars

\* in each registry a name registered with "A" and then with "B" holds "B"
C18_Witness ==
    /\ MapGet(Loaders, "csv") = "B"
    /\ MapGet(Renderers, "markdown") = "B"
    /\ MapGet(Outputs, "html") = "B"
    /\ MapGet(Deliveries, "console") = "B"

\* C19 (as claimed): a RegisterLoader call that runs while a worker looks
\* its loader up never ends in a crash: no executor is stopped by the
\* runtime's fatal error for a concurrent map read and map write.
C19_NoRaceCrash ==
    \A x \in Executors : exec[x].pc # "fatal"

\* C20: until Start is called no firing enqueues anything: whatever was
\* added with AddCronJob, every job in the queue (or held by a goroutine
\* parked in a send) was submitted through Enqueue.
C20_NoFiringBeforeStart ==
    ~started =>
      /\ \A k \in 1..Len(jobQueue) : jobQueue[k] = JobAdhoc
      /\ \A k \in 1..Len(sendq) : sendq[k].src = "enqueue"

\* a cron job was added and jobs were enqueued, and Start was not called
C20_Witness ==
    /\ ~started
    /\ cronEntries = <<JobCron>>
    /\ jobQueue = <<JobAdhoc, JobAdhoc>>

\* C21: Stop stops the scheduler before it signals the workers: stopCh is
\* closed only by a Stop call that has already stopped the scheduler, the
\* scheduler is not running while stopCh is closed, and no firing begins
\* once stopCh is closed.
C21_SchedulerStoppedFirst ==
    /\ [](stopCh = "closed" => ~cronRunning)
    /\ [][/\ (stopCh = "open" /\ stopCh' = "closed") =>
                (stopPc = "waiting" /\ ~cronRunning)
          /\ stopCh = "closed" => \A k \in 1..MaxCronEntries : ~Fire(k)]_vars

\* the workers were signalled on an engine whose scheduler had fired: a
\* firing of the cron job is still queued and the scheduler is stopped
C21_Witness ==
    /\ stopCh = "closed"
    /\ started
    /\ cronEntries = <<JobCron>>
    /\ \E k \in 1..Len(jobQueue) : jobQueue[k] = JobCron

\* C22: a Stop call on an engine that was not stopped before terminates,
\* also while a firing is parked in its send on the full queue: stopCh gets
\* closed and the call returns.
C22_StopTerminates ==
    (stopPc = "waiting" /\ stopCh = "open") ~> (stopPc = "idle" /\ stopCh = "closed")

\* Stop has returned while a firing is still parked on the full queue
C22_Witness ==
    /\ stopPc = "idle"
    /\ stopCh = "closed"
    /\ stops = 1
    /\ CronInFlight # {}
    /\ Len(jobQueue) = QueueCap

\* the last adapter call of executor x returned the outcome ret and ended
\* the execution
EndedBy(x, ret) ==
    /\ exec[x].pc = "done"
    /\ exec[x].log # <<>>
    /\ exec[x].log[Len(exec[x].log)].ret = ret

\* C23 (as claimed): an execution whose adapter failed because the deadline
\* was reached ends with the timeout outcome, told apart from the outcome
\* of an adapter that failed for another reason.
C23_DeadlineIsTimeout ==
    \A x \in Executors :
      /\ EndedBy(x, "deadline") => exec[x].err.kind = "timeout"
      /\ EndedBy(x, "err") => exec[x].err.kind # "timeout"

\* C24 (as claimed): the error of an adapter that failed in a stage reaches
\* the caller wrapped in a stage-failed error that names the stage.
C24_StageTagged ==
    \A x \in Executors :
      EndedBy(x, "err") =>
        /\ exec[x].err.kind = "stage failed"
        /\ exec[x].err.arg = exec[x].log[Len(exec[x].log)].op

\* C25: a TestExecute call runs the pipeline in its caller: every step of
\* it, from the call to the return, leaves the queue, the goroutines parked
\* on the queue, the scheduler's entries and every worker as they are, and
\* it returns only when execute has ended.
C25_TestExecuteBypassesPool ==
    [][/\ exec'[Tester] # exec[Tester] =>
            /\ jobQueue' = jobQueue
            /\ sendq' = sendq
            /\ cronEntries' = cronEntries
            /\ cronRunning' = cronRunning
            /\ \A w \in Workers : exec'[w] = exec[w]
       /\ (exec[Tester].pc # "idle" /\ exec'[Tester].pc = "idle") =>
            exec[Tester].pc \in {"done", "panic"}
       /\ (exec[Tester].pc = "idle" /\ exec'[Tester].pc # "idle") =>
            exec'[Tester].pc = "execute"]_vars

\* TestExecute has run a job to its end while a worker is inside execute
\* and a firing waits in the queue
C25_Witness ==
    /\ exec[Tester].pc = "done"
    /\ exec[Tester].job = JobEmpty
    /\ exec[Tester].err = NilErr
    /\ \E w \in Workers : exec[w].pc = "load"
    /\ jobQueue # <<>>

\* C26 (as claimed): what the caller does to the job value after AddCronJob
\* returned does not reach the submitted job: the registered entry, every
\* queued firing and every execution has the DataSource of the submission.
C26_SubmittedJobIsACopy ==
    /\ \A k \in 1..Len(cronEntries) : cronEntries[k].DataSource = JobCron.DataSource
    /\ \A k \in 1..Len(jobQueue) : jobQueue[k].DataSource = JobCron.DataSource
    /\ \A w \in Workers : InPipeline(w) => exec[w].job.DataSource = JobCron.DataSource

\* C27 (as claimed): the scope of a worker's execution is cancelled on
\* every way out of the execution, a panic of the pipeline included: no
\* worker whose execution ended in a panic still has its scope open.
C27_ScopeReleasedOnPanic ==
    \A w \in Workers : exec[w].pc = "panic" => exec[w].scope # "open"

\* C28: nothing excludes or merges firings of one job: whenever the
\* scheduler runs and the buffer has room, a firing of entry k adds its job
\* to the queue, whether or not the same job is queued or being executed,
\* and a worker waiting in its select can receive the head of the queue
\* whatever the other workers are executing.
C28_NoExclusionPerJob ==
    /\ \A k \in 1..Len(cronEntries) :
         (~crashed /\ cronRunning /\ HasRoom(jobQueue)) =>
            ENABLED (Fire(k) /\ jobQueue' = Append(jobQueue, cronEntries[k]))
    /\ \A w \in Workers :
         (~crashed /\ exec[w].pc = "select" /\ jobQueue # <<>>) =>
            ENABLED (WorkerRecv(w) /\ exec'[w].job = Head(jobQueue))

\* two workers are executing firings of the same job at the same time, and
\* two more firings of it are queued
C28_Witness ==
    /\ \E v, w \in Workers :
         /\ v # w
         /\ exec[v].pc = "execute" /\ exec[w].pc = "execute"
         /\ exec[v].job = JobCron /\ exec[w].job = JobCron
    /\ jobQueue = <<JobCron, JobCron>>

\* a job is sent on the queue by a firing or by Enqueue
Submit ==
    \/ \E k \in 1..MaxCronEntries : Fire(k)
    \/ \E j \in EngineJobs : Enqueue(j)

ReturnsOk(x, pc) ==
    /\ exec[x].pc = pc
    /\ Len(exec'[x].log) >= Len(exec[x].log)
    /\ exec'[x].log[Len(exec[x].log)].ret = "ok"

\* C30: TestExecute of a job without outputs and deliveries, with the
\* loader of its data source and the renderer "markdown" registered and
\* succeeding, calls Load once, then Render once, calls no generator and no
\* delivery adapter, and returns nil.
C30_EmptyJobLoadsAndRenders ==
    /\ [](exec[Tester].job = JobEmpty =>
            /\ Len(exec[Tester].log) <= 2
            /\ \A a \in 1..Len(exec[Tester].log) :
                 exec[Tester].log[a].op = <<"Load", "Render">>[a])
    /\ [][exec[Tester].job = JobEmpty =>
            /\ (exec[Tester].pc = "execute" /\ exec'[Tester].pc # "execute"
                  /\ "csv" \in DOMAIN Loaders) =>
                 (exec'[Tester].pc = "load" /\ Len(exec'[Tester].log) = 1)
            /\ (ReturnsOk(Tester, "load") /\ "markdown" \in DOMAIN Renderers) =>
                 (exec'[Tester].pc = "render" /\ Len(exec'[Tester].log) = 2)
            /\ ReturnsOk(Tester, "render") =>
                 /\ exec'[Tester].pc = "done"
                 /\ exec'[Tester].err = NilErr
                 /\ Len(exec'[Tester].log) = 2]_vars

\* TestExecute of the job without outputs and deliveries has ended with nil
\* after a Load and a Render that succeeded
C30_Witness ==
    /\ exec[Tester].job = JobEmpty
    /\ exec[Tester].pc = "done"
    /\ exec[Tester].err = NilErr
    /\ Len(exec[Tester].log) = 2
    /\ \A a \in 1..2 : exec[Tester].log[a].ret = "ok"

\* C31: whatever the job, the renderer an execution calls is the one
\* registered under "markdown"; the renderer registered under "html" is
\* never called.
C31_RendererIsMarkdown ==
    \A x \in Executors :
      \A a \in 1..Len(exec[x].log) :
        exec[x].log[a].op = "Render" =>
          /\ exec[x].log[a].by = MapGet(Renderers, "markdown")
          /\ exec[x].log[a].by # "B"

\* the job with an html template and html as its first output is being
\* rendered while a renderer is registered under "html"
C31_Witness ==
    /\ exec[Tester].job = JobHtml
    /\ exec[Tester].pc = "render"
    /\ MapGet(Renderers, "html") = "B"

\* the position of job.Outputs the output loop of x turns to next
NextOutput(x) == IF exec[x].pc = "render" THEN 1 ELSE exec[x].i + 1

\* C32: when the output loop reaches a format without a registered
\* generator the execution ends with the no-output error for that format;
\* by then the generators of the earlier positions were called once each,
\* in order, and nothing else follows: no later generator, no delivery.
C32_MissingOutput ==
    /\ [](\A x \in Executors :
            (exec[x].pc = "done" /\ exec[x].err.kind = ErrNoOutputFor("").kind) =>
               LET k == exec[x].i
                   log == exec[x].log
                   gen == Select(log, "Generate") IN
               /\ k \in 1..Len(exec[x].job.Outputs)
               /\ exec[x].err = ErrNoOutputFor(exec[x].job.Outputs[k])
               /\ Len(gen) = k - 1
               /\ \A a \in 1..Len(gen) : gen[a].idx = a /\ gen[a].ret = "ok"
               /\ CallsOf(log, "Deliver") = {})
    /\ [][\A x \in Executors :
            (/\ exec[x].pc \in {"render", "generate"}
             /\ ReturnsOk(x, exec[x].pc)
             /\ NextOutput(x) <= Len(exec[x].job.Outputs)
             /\ exec[x].job.Outputs[NextOutput(x)] \notin DOMAIN Outputs) =>
               /\ exec'[x].pc = "done"
               /\ exec'[x].err = ErrNoOutputFor(exec[x].job.Outputs[NextOutput(x)])]_vars

\* the second output of the job has no generator: the first was generated,
\* the execution failed at the second
C32_Witness ==
    /\ exec[Tester].job = JobFull
    /\ exec[Tester].pc = "done"
    /\ exec[Tester].err = ErrNoOutputFor("pdf")
    /\ Len(Select(exec[Tester].log, "Generate")) = 1

\* the position of job.Delivery the delivery loop of x turns to next, once
\* the call x is waiting for has returned (0: the output loop is not over)
NextDelivery(x) ==
    IF exec[x].pc = "deliver" THEN exec[x].i + 1
    ELSE IF exec[x].pc = "render" /\ exec[x].job.Outputs = <<>> THEN 1
    ELSE IF exec[x].pc = "generate" /\ exec[x].i = Len(exec[x].job.Outputs) THEN 1
    ELSE 0

\* C33: when the delivery loop reaches a delivery whose adapter is not
\* registered the execution ends with the no-delivery error for its type;
\* the deliveries of the earlier positions were made once each, in order,
\* and none of a later position is made.
C33_MissingDelivery ==
    /\ [](\A x \in Executors :
            (exec[x].pc = "done" /\ exec[x].err.kind = ErrNoDeliveryFor("").kind) =>
               LET k == exec[x].i
                   del == Select(exec[x].log, "Deliver") IN
               /\ k \in 1..Len(exec[x].job.Delivery)
               /\ exec[x].err = ErrNoDeliveryFor(MapGet(exec[x].job.Delivery[k], "type"))
               /\ Len(del) = k - 1
               /\ \A a \in 1..Len(del) : del[a].idx = a /\ del[a].ret = "ok")
    /\ [][\A x \in Executors :
            (/\ exec[x].pc \in {"render", "generate", "deliver"}
             /\ ReturnsOk(x, exec[x].pc)
             /\ NextDelivery(x) \in 1..Len(exec[x].job.Delivery)
             /\ MapGet(exec[x].job.Delivery[NextDelivery(x)], "type")
                   \notin DOMAIN Deliveries) =>
               /\ exec'[x].pc = "done"
               /\ exec'[x].err = ErrNoDeliveryFor(
                     MapGet(exec[x].job.Delivery[NextDelivery(x)], "type"))]_vars

\* the second delivery of the job has no adapter: the first delivery was
\* made, the execution failed at the second
C33_Witness ==
    /\ exec[Tester].job = JobFull
    /\ exec[Tester].pc = "done"
    /\ exec[Tester].err.kind = ErrNoDeliveryFor("").kind
    /\ exec[Tester].i = 2
    /\ Len(Select(exec[Tester].log, "Deliver")) = 1

\* C34: after Start on an engine made with N workers at most N executions
\* are in progress in the pool (the goroutines beyond N are never started),
\* and a worker takes a job only when it is not executing one.
C34_AtMostNExecutions ==
    /\ [](/\ Cardinality({w \in Workers : InPipeline(w)}) <= workers
          /\ \A w \in Workers : w > workers => exec[w].pc = "unborn")
    /\ [][\A w \in Workers :
            (exec'[w].job # exec[w].job /\ exec'[w].job # NoJob) =>
               (exec[w].pc = "select" /\ exec[w].job = NoJob)]_vars

\* the one worker is executing a job while two more wait in the queue
C34_Witness ==
    /\ workers = 1
    /\ Cardinality({w \in Workers : InPipeline(w)}) = 1
    /\ Len(jobQueue) = 2

\* jobs that were sent and not received yet: in the buffer or with a
\* goroutine parked in its send
Pending == Len(jobQueue) + Len(sendq)

\* C35: a job in the queue goes to exactly one worker: a step in which a
\* worker receives is the step of that worker alone and takes one job out
\* of the pending ones, and an execution starts in no other way, so there
\* are never more executions than sends.
C35_ReceivedOnce ==
    [][LET recv == {w \in Workers : RecvStep(w)} IN
       /\ Cardinality(recv) <= 1
       /\ recv # {} => Pending' = Pending - 1
       /\ \A w \in Workers :
            (exec'[w].job # exec[w].job /\ exec'[w].job # NoJob) => w \in recv]_vars

\* the two jobs that were queued together are with one worker each, and
\* the queue is empty
C35_Witness ==
    /\ \E v, w \in Workers :
         /\ exec[v].pc = "execute" /\ exec[v].job = JobCron
         /\ exec[w].pc = "execute" /\ exec[w].job = JobAdhoc
    /\ Pending = 0

\* C36 (as claimed): a Stop call on an engine that is stopped already does
\* not fail: no Stop call ends in a panic.
C36_SecondStopHarmless ==
    stopPc # "panic"

C38_TestExecuteScope ==
    /\ [](/\ exec[Tester].pc = "idle" <=> exec[Tester].scope = "none"
          /\ exec[Tester].scope = "open" =>
               /\ ENABLED (CallerCancel /\ exec'[Tester].scope = "canceled")
               /\ ENABLED (TimeoutElapse(Tester) /\ exec'[Tester].scope = "deadline"))
    /\ [][/\ exec[Tester].scope \in {"canceled", "deadline"} =>
               exec'[Tester].scope \in {exec[Tester].scope, "none"}
          /\ (exec[Tester].scope = "none" /\ exec'[Tester].scope # "none") =>
               exec'[Tester].scope = NewScope(exec'[Tester].job)
          /\ (exec[Tester].pc # "idle" /\ exec'[Tester].pc = "idle") =>
               exec'[Tester].scope = "none"]_vars

\* the pipeline has panicked in a TestExecute call whose context the caller
\* had cancelled
C38_Witness ==
    /\ exec[Tester].pc = "panic"
    /\ exec[Tester].scope = "canceled"

\* all names used as keys of some registry
AllNames == LoaderNames \cup RendererNames \cup OutputNames \cup DeliveryNames

\* the names whose lookup in registry m differs from their lookup in n
Changed(m, n) == {k \in AllNames : MapGet(m, k) # MapGet(n, k)}

\* C39: the four registries are independent: a registration changes the
\* lookup of one name in one registry and nothing else, neither another
\* name of that kind nor any name (the same one included) of another kind.
C39_RegistriesIndependent ==
    [][/\ \A n \in LoaderNames, a \in AdapterIds : RegisterLoader(n, a) =>
            /\ Changed(Loaders', Loaders) \subseteq {n}
            /\ Changed(Renderers', Renderers) = {}
            /\ Changed(Outputs', Outputs) = {}
            /\ Changed(Deliveries', Deliveries) = {}
       /\ \A n \in RendererNames, a \in AdapterIds : RegisterRenderer(n, a) =>
            /\ Changed(Renderers', Renderers) \subseteq {n}
            /\ Changed(Loaders', Loaders) = {}
            /\ Changed(Outputs', Outputs) = {}
            /\ Changed(Deliveries', Deliveries) = {}
       /\ \A n \in OutputNames, a \in AdapterIds : RegisterOutput(n, a) =>
            /\ Changed(Outputs', Outputs) \subseteq {n}
            /\ Changed(Loaders', Loaders) = {}
            /\ Changed(Renderers', Renderers) = {}
            /\ Changed(Deliveries', Deliveries) = {}
       /\ \A n \in DeliveryNames, a \in AdapterIds : RegisterDelivery(n, a) =>
            /\ Changed(Deliveries', Deliveries) \subseteq {n}
            /\ Changed(Loaders', Loaders) = {}
            /\ Changed(Renderers', Renderers) = {}
            /\ Changed(Outputs', Outputs) = {}
       /\ Cardinality({r \in 1..4 :
              <<Loaders', Renderers', Outputs', Deliveries'>>[r]
                 # <<Loaders, Renderers, Outputs, Deliveries>>[r]}) <= 1]_vars

\* the name "html" is registered under two kinds with different adapters,
\* and under no other kind
C39_Witness ==
    /\ MapGet(Renderers, "html") = "A"
    /\ MapGet(Outputs, "html") = "B"
    /\ "html" \notin DOMAIN Loaders
    /\ "html" \notin DOMAIN Deliveries

\* the errors a Schedule* call records for arguments out of range
ScheduleErrors ==
    {Errorf("invalid time: " \o ToString(h) \o ":" \o ToString(m)) :
        <<h, m>> \in {t \in Hours \X Minutes : ~TimeOk(t[1], t[2])}}
    \cup {Errorf("invalid date/time: day " \o ToString(t[1]) \o ", " \o ToString(t[2])
                 \o ":" \o ToString(t[3])) :
            t \in {u \in Days \X Hours \X Minutes :
                      u[1] < 1 \/ u[1] > 31 \/ ~TimeOk(u[2], u[3])}}
    \cup {Errorf("interval too short: " \o DurationString(i)) :
            i \in {j \in Intervals : j < 1000}}

\* C40: JobBuilder errors are sticky. The only error a builder records is
\* that of a Schedule* call with an hour, minute or day out of range or an
\* interval below one second, and recording it leaves the job alone; once
\* it is recorded, every later method call leaves the job under
\* construction and the error unchanged, and Build returns that error with
\* a zero ReportJob. Whenever Build returns a nil error the job it returns
\* has a non-empty Name, TemplatePath and DataSource["type"], at least one
\* output and at least one delivery.
C40_StickyBuilderError ==
    /\ [][Len(jb) = 1 /\ jb[1].err # NilErr => jb' = jb]_vars
    /\ [][Len(jb) = 1 /\ Len(jb') = 1 /\ jb[1].err = NilErr /\ jb'[1].err # NilErr =>
            /\ jb'[1].err \in ScheduleErrors
            /\ jb'[1].job = jb[1].job]_vars
    /\ [](built # <<>> =>
            /\ jb[1].err # NilErr => built[1] = [job |-> ZeroJob, err |-> jb[1].err]
            /\ built[1].err = NilErr =>
                 /\ built[1].job = jb[1].job
                 /\ built[1].job.Name # ""
                 /\ built[1].job.TemplatePath # ""
                 /\ MapGet(built[1].job.DataSource, "type") # ""
                 /\ Len(built[1].job.Outputs) >= 1
                 /\ Len(built[1].job.Delivery) >= 1)

\* Build has returned the error of a Schedule* call and a zero job, from a
\* builder whose job is complete
C40_Witness ==
    /\ built # <<>>
    /\ built[1].err \in ScheduleErrors
    /\ built[1].job = ZeroJob
    /\ BuildResult([jb[1] EXCEPT !.err = NilErr]).err = NilErr

====
